---- MODULE Spec2Model ----
(***************************************************************************)
(* The two notebooks of the repository as a state machine.                 *)
(*                                                                         *)
(*   - the network notebook: NeuralNetwork (Flatten, then a Sequential of  *)
(*     Linear/ReLU/Linear/ReLU/Linear), seq_modules, nn.Softmax(dim=1) and *)
(*     argmax(1);                                                          *)
(*   - Basic/04-transform.ipynb: the one-hot target_transform, written     *)
(*     once with positional and once with keyword arguments to scatter_.   *)
(*                                                                         *)
(* A tensor is a shape and a row-major storage.  The networks of the       *)
(* notebook (784 -> 512 -> 512 -> 10 and 784 -> 20 -> 10) are evaluated    *)
(* with their real sizes on tensors whose storage is elided after the      *)
(* first Linear (shape checks read no storage); the same NeuralNetwork     *)
(* class at a reduced width is evaluated on stored values.  Values are     *)
(* fixed-point numbers with FracBits fractional bits: the integer n stands *)
(* for n / 2^FracBits.                                                     *)
(***************************************************************************)
EXTENDS Integers, Sequences, FiniteSets, TLC

\* ---------------------------------------------------------------- bounds
MaxBatch == 2        \* batch sizes 1..MaxBatch
SmallRows == 2       \* image height of the reduced-width network
SmallCols == 2       \* image width of the reduced-width network
SmallHidden == 2     \* hidden width of the reduced-width network
MaxSeed == 2         \* parameter initialisations 0..MaxSeed
MaxCalls == 2        \* concurrent forward evaluations in the worker pool
FracBits == 20       \* fractional bits of a stored value

\* ------------------------------------------------------ program constants
ImgRows == 28        \* torch.rand(1, 28, 28), nn.Linear(28*28, 512)
ImgCols == 28
Hidden == 512        \* nn.Linear(28*28, 512), nn.Linear(512, 512)
NumClasses == 10     \* nn.Linear(512, 10), torch.zeros(10, ...)
Layer1Out == 20      \* nn.Linear(in_features=28*28, out_features=20)

One == 2 ^ FracBits

\* ---------------------------------------------------------------- helpers
RECURSIVE Prod(_)
Prod(s) == IF s = <<>> THEN 1 ELSE Head(s) * Prod(Tail(s))

Max2(a, b) == IF a >= b THEN a ELSE b

RECURSIVE SumSeq(_)
SumSeq(s) == IF s = <<>> THEN 0 ELSE Head(s) + SumSeq(Tail(s))

\* ---------------------------------------------------------------- tensors
\* A tensor: its sizes and its contiguous row-major storage.  stored = FALSE
\* is a tensor whose storage is elided: only its shape is known.
Tensor(shape, data) == [shape |-> shape, stored |-> TRUE, data |-> data]
Meta(shape) == [shape |-> shape, stored |-> FALSE, data |-> <<>>]
NoTensor == Meta(<<>>)

\* t[idx] for a full index idx (0-based, as in the code): row-major strides.
RECURSIVE Offset(_, _)
Offset(shape, idx) ==
    IF shape = <<>> THEN 0
    ELSE Head(idx) * Prod(Tail(shape)) + Offset(Tail(shape), Tail(idx))

At(t, idx) == t.data[Offset(t.shape, idx) + 1]

\* The result of applying a module: a tensor, or a raised RuntimeError.
Ok(t) == [ok |-> TRUE, val |-> t]
Raise == [ok |-> FALSE, val |-> NoTensor]

\* ------------------------------------------------------------ fixed point
\* al * b / 2^k for 0 <= al < 2^k, one bit of al at a time (lowest first), so
\* that no intermediate leaves 32 bits.
RECURSIVE FracMul(_, _, _, _)
FracMul(al, b, k, r) ==
    IF k = 0 THEN r
    ELSE FracMul(al \div 2, b, k - 1, (r + (al % 2) * b) \div 2)

\* The product of two stored values, as a stored value.
MulFix(a, b) == (a \div One) * b + FracMul(a % One, b, FracBits, 0)

\* a / b as a stored value, for 0 <= a <= b, rounded to nearest: long division.
RECURSIVE DivBits(_, _, _, _)
DivBits(r, b, k, q) ==
    IF k = 0 THEN (IF 2 * r >= b THEN q + 1 ELSE q)
    ELSE IF 2 * r >= b THEN DivBits(2 * r - b, b, k - 1, 2 * q + 1)
         ELSE DivBits(2 * r, b, k - 1, 2 * q)

DivFix(a, b) == DivBits(a, b, FracBits, 0)

\* exp(-x) for a stored x >= 0: the series below 1/2, squaring above.
RECURSIVE ExpSeries(_, _, _, _)
ExpSeries(x, term, k, acc) ==
    IF term = 0 THEN acc
    ELSE LET nxt == MulFix(term, x) \div k
         IN ExpSeries(x, nxt, k + 1,
                      IF k % 2 = 1 THEN acc - nxt ELSE acc + nxt)

Square(h) == MulFix(h, h)

RECURSIVE ExpNeg(_)
ExpNeg(x) ==
    IF 2 * x <= One THEN ExpSeries(x, One, 1, One)
    ELSE IF x % 2 = 0 THEN Square(ExpNeg(x \div 2))
         ELSE MulFix(ExpNeg(x \div 2), ExpNeg(x - x \div 2))

\* ---------------------------------------------------------------- modules
FlattenModule == [kind |-> "Flatten", in_features |-> 0, out_features |-> 0, param |-> 0]
ReLUModule == [kind |-> "ReLU", in_features |-> 0, out_features |-> 0, param |-> 0]
LinearModule(in, out, p) ==
    [kind |-> "Linear", in_features |-> in, out_features |-> out, param |-> p]

\* Mutant of FlattenShape: torch.flatten's default start_dim=0, which folds
\* the batch dimension in as well.
FlattenShapeFromZero(shape) == <<Prod(shape)>>

\* nn.Flatten(): start_dim=1, end_dim=-1.  The storage is kept as it is.
FlattenShape(shape) == <<Head(shape), Prod(Tail(shape))>>

FlattenForward(x) ==
    IF Len(x.shape) < 2 THEN Raise
    ELSE Ok([x EXCEPT !.shape = FlattenShape(x.shape)])

\* One output entry of nn.Linear: row r of x against row j of the weight.
RECURSIVE Dot(_, _, _, _, _)
Dot(xd, xoff, wd, woff, n) ==
    IF n = 0 THEN 0
    ELSE MulFix(xd[xoff + n], wd[woff + n]) + Dot(xd, xoff, wd, woff, n - 1)

LinearData(x, m, w) ==
    LET in == m.in_features
        out == m.out_features
        rows == Prod(x.shape) \div in
    IN [k \in 1..(rows * out) |->
            LET r == (k - 1) \div out
                j == (k - 1) % out
            IN Dot(x.data, r * in, w.weight.data, j * in, in) + w.bias.data[j + 1]]

\* Mutant of LinearForward: the trailing dimension is not checked, and a
\* mismatched input yields a tensor of the output shape.
LinearForwardUnchecked(x, m, w) ==
    LET shape == SubSeq(x.shape, 1, Len(x.shape) - 1) \o <<m.out_features>>
    IN IF Len(x.shape) = 0 \/ x.shape[Len(x.shape)] # m.in_features
          \/ ~(x.stored /\ w.weight.stored)
       THEN Ok(Meta(shape))
       ELSE Ok(Tensor(shape, LinearData(x, m, w)))

\* nn.Linear: output = input . W^T + b on the trailing dimension.
LinearForward(x, m, w) ==
    IF Len(x.shape) = 0 \/ x.shape[Len(x.shape)] # m.in_features THEN Raise
    ELSE LET shape == SubSeq(x.shape, 1, Len(x.shape) - 1) \o <<m.out_features>>
         IN IF x.stored /\ w.weight.stored
            THEN Ok(Tensor(shape, LinearData(x, m, w)))
            ELSE Ok(Meta(shape))

\* Mutant of ReLUForward: the absolute value instead of the positive part.
ReLUForwardAbs(x) ==
    Ok([x EXCEPT !.data = [k \in 1..Len(x.data) |-> Max2(-x.data[k], x.data[k])]])

\* nn.ReLU: elementwise max(0, x).
ReLUForward(x) ==
    Ok([x EXCEPT !.data = [k \in 1..Len(x.data) |-> Max2(0, x.data[k])]])

\* module(input), for the parameters ps of the module's network.
ModuleForward(m, ps, x) ==
    CASE m.kind = "Flatten" -> FlattenForward(x)
      [] m.kind = "Linear" -> LinearForward(x, m, ps[m.param])
      [] m.kind = "ReLU" -> ReLUForward(x)

\* Mutant of SequentialForward: the loop stops one module short of the end.
RECURSIVE SequentialForwardDropsLast(_, _, _)
SequentialForwardDropsLast(ms, ps, x) ==
    IF Len(ms) <= 1 THEN Ok(x)
    ELSE LET r == ModuleForward(Head(ms), ps, x)
         IN IF r.ok THEN SequentialForwardDropsLast(Tail(ms), ps, r.val) ELSE Raise

\* nn.Sequential: for module in self: input = module(input).  A raised error
\* leaves the loop.
RECURSIVE SequentialForward(_, _, _)
SequentialForward(ms, ps, x) ==
    IF ms = <<>> THEN Ok(x)
    ELSE LET r == ModuleForward(Head(ms), ps, x)
         IN IF r.ok THEN SequentialForward(Tail(ms), ps, r.val) ELSE Raise

\* ------------------------------------------------------- softmax, argmax
RECURSIVE MaxSeq(_)
MaxSeq(s) == IF Len(s) = 1 THEN s[1] ELSE Max2(Head(s), MaxSeq(Tail(s)))

RECURSIVE MinSeq(_)
MinSeq(s) == IF Len(s) = 1 THEN s[1] ELSE -Max2(-Head(s), -MinSeq(Tail(s)))

\* Mutant of SoftmaxRow: the sign of the exponent is lost, exp(min - x).
SoftmaxRowInverted(row) ==
    LET m == MinSeq(row)
        e == [i \in 1..Len(row) |-> ExpNeg(row[i] - m)]
        s == SumSeq(e)
    IN [i \in 1..Len(row) |-> DivFix(e[i], s)]

\* One row of nn.Softmax: exp(x - max) / sum(exp(x - max)).
SoftmaxRow(row) ==
    LET m == MaxSeq(row)
        e == [i \in 1..Len(row) |-> ExpNeg(m - row[i])]
        s == SumSeq(e)
    IN [i \in 1..Len(row) |-> DivFix(e[i], s)]

Row(t, b) == SubSeq(t.data, b * t.shape[2] + 1, (b + 1) * t.shape[2])

RECURSIVE Concat(_, _)
Concat(f, n) == IF n = 0 THEN <<>> ELSE Concat(f, n - 1) \o f[n]

\* Mutant of Softmax: dim=0, which normalises each class over the batch.
SoftmaxDim0(t) ==
    IF Len(t.shape) < 2 THEN Raise
    ELSE IF ~t.stored THEN Ok(t)
    ELSE LET B == t.shape[1]
             n == t.shape[2]
             col == [j \in 1..n |->
                        SoftmaxRow([b \in 1..B |-> t.data[(b - 1) * n + j]])]
         IN Ok(Tensor(t.shape,
                      [k \in 1..(B * n) |-> col[((k - 1) % n) + 1][((k - 1) \div n) + 1]]))

\* nn.Softmax(dim=1) on a (batch, classes) tensor.
Softmax(t) ==
    IF Len(t.shape) < 2 THEN Raise
    ELSE IF ~t.stored THEN Ok(t)
    ELSE Ok(Tensor(t.shape,
                   Concat([b \in 1..t.shape[1] |-> SoftmaxRow(Row(t, b - 1))],
                          t.shape[1])))

\* The first index (0-based) of the largest entry of a row.
ArgmaxRow(row) ==
    (CHOOSE i \in 1..Len(row) :
        /\ row[i] = MaxSeq(row)
        /\ \A j \in 1..(i - 1) : row[j] < row[i]) - 1

\* tensor.argmax(1) on a (batch, classes) tensor.
Argmax(t) ==
    IF ~t.stored THEN Meta(<<t.shape[1]>>)
    ELSE Tensor(<<t.shape[1]>>, [b \in 1..t.shape[1] |-> ArgmaxRow(Row(t, b - 1))])

\* --------------------------------------------------------------- networks
\* Mutant of NeuralNetworkModules: the last Linear is given the input width
\* for its in_features.
NeuralNetworkModulesWrongWidth(in, hidden, out) ==
    <<FlattenModule,
      LinearModule(in, hidden, 1), ReLUModule,
      LinearModule(hidden, hidden, 2), ReLUModule,
      LinearModule(in, out, 3)>>

\* NeuralNetwork.__init__ and forward: self.flatten, then self.layout.
NeuralNetworkModules(in, hidden, out) ==
    <<FlattenModule,
      LinearModule(in, hidden, 1), ReLUModule,
      LinearModule(hidden, hidden, 2), ReLUModule,
      LinearModule(hidden, out, 3)>>

\* seq_modules = nn.Sequential(flatten, layer1, nn.ReLU(), nn.Linear(20, 10))
SeqModules ==
    <<FlattenModule,
      LinearModule(ImgRows * ImgCols, Layer1Out, 1), ReLUModule,
      LinearModule(Layer1Out, NumClasses, 2)>>

Nets == {"model", "seq_modules", "small"}

Modules(net) ==
    CASE net = "model" -> NeuralNetworkModules(ImgRows * ImgCols, Hidden, NumClasses)
      [] net = "seq_modules" -> SeqModules
      [] net = "small" ->
            NeuralNetworkModules(SmallRows * SmallCols, SmallHidden, NumClasses)

\* The weight values a seed draws: quarters between -1/2 and 1/2.
WeightValue(seed, layer, j, i) ==
    (((seed + layer + j + 2 * i) % 5) - 2) * (One \div 4)

\* The bias values a seed draws: -1, 0 or 1 times the seed's scale, which is
\* the smallest stored value for an even seed and 1/8 for an odd one.
BiasValue(seed, layer, j) ==
    (((seed + layer + j) % 3) - 1) * (IF seed % 2 = 0 THEN 1 ELSE One \div 8)

\* The parameters of one nn.Linear: weight (out, in) and bias (out).
LinearParams(seed, stored, layer, in, out) ==
    IF stored
    THEN [weight |-> Tensor(<<out, in>>,
                            [k \in 1..(out * in) |->
                                WeightValue(seed, layer, (k - 1) \div in, (k - 1) % in)]),
          bias |-> Tensor(<<out>>, [k \in 1..out |-> BiasValue(seed, layer, k - 1)])]
    ELSE [weight |-> Meta(<<out, in>>), bias |-> Meta(<<out>>)]

RECURSIVE ParamsOfModules(_, _, _)
ParamsOfModules(ms, seed, stored) ==
    IF ms = <<>> THEN <<>>
    ELSE LET m == Head(ms)
             rest == ParamsOfModules(Tail(ms), seed, stored)
         IN IF m.kind = "Linear"
            THEN <<LinearParams(seed, stored, m.param, m.in_features, m.out_features)>>
                 \o rest
            ELSE rest

\* Construction: every Linear draws its weight and bias.
InitParams(seed) ==
    [net \in Nets |-> ParamsOfModules(Modules(net), seed, net = "small")]

\* ----------------------------------------------------------------- inputs
PixelPatterns == {"zeros", "ramp", "checker"}

Pixels(pat, n) ==
    [k \in 1..n |->
        CASE pat = "zeros" -> 0
          [] pat = "ramp" -> (k - 1) * (One \div n)
          [] pat = "checker" -> IF k % 2 = 1 THEN One \div 2 ELSE One \div 4]

Image(shape, pat) == Tensor(shape, Pixels(pat, Prod(shape)))

\* What the caller passes: batches of 28x28 images, batches of another size,
\* and one image without its batch dimension.
RealInputs ==
    {Image(<<b>> \o hw, "ramp") :
        b \in 1..MaxBatch,
        hw \in {<<ImgRows, ImgCols>>, <<ImgRows, ImgCols - 1>>,
                <<ImgRows \div 2, ImgCols * 2>>}}
    \cup {Image(<<ImgRows * ImgCols>>, "ramp")}

SmallInputs ==
    {Image(<<b, SmallRows, w>>, pat) :
        b \in 1..MaxBatch, w \in {SmallCols, SmallCols + 1}, pat \in PixelPatterns}

Inputs(net) == IF net = "small" THEN SmallInputs ELSE RealInputs

\* ------------------------------------------------------------------ state
VARIABLES
    params,   \* net -> the parameters of its Linear modules
    calls,    \* worker -> the forward evaluation it runs
    target    \* the label transform's result

vars == <<params, calls, target>>

Workers == 1..MaxCalls

IdleCall ==
    [stage |-> "idle", net |-> "model", pc |-> 0, xs |-> <<>>, applied |-> <<>>,
     out |-> NoTensor, pred_prob |-> NoTensor, y_pred |-> NoTensor]

NoTarget == [y |-> -1, raised |-> FALSE, positional |-> <<>>, keyword |-> <<>>]

Init ==
    /\ params \in {InitParams(seed) : seed \in 0..MaxSeed}
    /\ calls = [c \in Workers |-> IdleCall]
    /\ target = NoTarget

\* Mutant of ParamsAfterForward: a Linear module adjusts its first bias in
\* place whenever it is applied.
ParamsAfterForwardInPlace(ps, net, m) ==
    IF m.kind = "Linear" /\ ps[net][m.param].bias.stored
    THEN [ps EXCEPT ![net][m.param].bias.data[1] = @ + 1]
    ELSE ps

\* A forward evaluation reads the parameters and writes none.
ParamsAfterForward(ps, net, m) == ps

\* Mutant of NextModule: the loop steps over every other module.
NextModuleSkip(pc) == pc + 2

\* The loop of nn.Sequential moves to the next module of the list.
NextModule(pc) == pc + 1

\* out = model(X): the caller passes x to the network.
Call(c, net, x) ==
    /\ calls[c].stage = "idle"
    /\ target = NoTarget
    /\ calls' = [calls EXCEPT ![c] =
                    [IdleCall EXCEPT !.stage = "forward", !.net = net, !.pc = 1,
                                     !.xs = <<x>>]]
    /\ UNCHANGED <<params, target>>

\* One module of the pipeline is applied to the output of the one before it.
Step(c) ==
    LET call == calls[c]
        ms == Modules(call.net)
    IN /\ call.stage = "forward"
       /\ call.pc <= Len(ms)
       /\ LET r == ModuleForward(ms[call.pc], params[call.net], call.xs[Len(call.xs)])
          IN /\ calls' = [calls EXCEPT ![c] =
                    IF r.ok
                    THEN [call EXCEPT !.xs = Append(call.xs, r.val),
                                      !.applied = Append(call.applied, call.pc),
                                      !.pc = NextModule(call.pc)]
                    ELSE [call EXCEPT !.stage = "raised"]]
             /\ params' = ParamsAfterForward(params, call.net, ms[call.pc])
       /\ UNCHANGED target

\* return out
Return(c) ==
    LET call == calls[c]
    IN /\ call.stage = "forward"
       /\ call.pc > Len(Modules(call.net))
       /\ calls' = [calls EXCEPT ![c] =
                       [call EXCEPT !.stage = "returned",
                                    !.out = call.xs[Len(call.xs)]]]
       /\ UNCHANGED <<params, target>>

\* pred_prob = nn.Softmax(dim=1)(out)
ApplySoftmax(c) ==
    LET call == calls[c]
        r == Softmax(call.out)
    IN /\ call.stage = "returned"
       /\ calls' = [calls EXCEPT ![c] =
                       IF r.ok THEN [call EXCEPT !.stage = "prob", !.pred_prob = r.val]
                       ELSE [call EXCEPT !.stage = "raised"]]
       /\ UNCHANGED <<params, target>>

\* y_pred = pred_prob.argmax(1)
ApplyArgmax(c) ==
    LET call == calls[c]
    IN /\ call.stage = "prob"
       /\ calls' = [calls EXCEPT ![c] =
                       [call EXCEPT !.stage = "pred", !.y_pred = Argmax(call.pred_prob)]]
       /\ UNCHANGED <<params, target>>

\* -------------------------------------------------------- label transform
\* torch.zeros(10, dtype=torch.float)
Zeros(n) == Tensor(<<n>>, [k \in 1..n |-> 0])

\* The argument the call binds to a parameter of scatter_(dim, index, *, value):
\* the positional one at its place if there is one, else the keyword one.
Bind(args, kwargs, name, pos) ==
    IF pos <= Len(args) THEN args[pos] ELSE kwargs[name]

\* Tensor.scatter_ on a 1-D tensor with a 0-d index: self[index] = value.
Scatter(self, args, kwargs) ==
    LET dim == Bind(args, kwargs, "dim", 1)
        index == Bind(args, kwargs, "index", 2)
        value == kwargs["value"]
    IN IF dim # 0 \/ index < 0 \/ index >= self.shape[1] THEN Raise
       ELSE Ok([self EXCEPT !.data[index + 1] = value * One])

\* Mutant of TargetTransformPositional: the two positional arguments in the
\* other order.
TargetTransformPositionalSwapped(y) ==
    Scatter(Zeros(NumClasses), <<y, 0>>, [value |-> 1])

\* Lambda(lambda y: torch.zeros(10, ...).scatter_(0, torch.tensor(y), value=1))
TargetTransformPositional(y) ==
    Scatter(Zeros(NumClasses), <<0, y>>, [value |-> 1])

\* Lambda(lambda y: torch.zeros(10, ...).scatter_(dim=0, index=torch.tensor(y), value=1))
TargetTransformKeyword(y) ==
    Scatter(Zeros(NumClasses), <<>>, [dim |-> 0, index |-> y, value |-> 1])

\* The labels handed to the transform: the classes, and one past the last.
Labels == 0..NumClasses

\* The transform notebook: a label goes through both spellings of the transform.
TargetTransform(y) ==
    /\ target = NoTarget
    /\ \A c \in Workers : calls[c].stage = "idle"
    /\ LET p == TargetTransformPositional(y)
           k == TargetTransformKeyword(y)
       IN target' = [y |-> y, raised |-> ~p.ok \/ ~k.ok,
                     positional |-> p.val.data, keyword |-> k.val.data]
    /\ UNCHANGED <<params, calls>>

\* --------------------------------------------------------- specifications
\* The notebooks as written: one evaluation at a time.
Next ==
    \/ \E net \in Nets : \E x \in Inputs(net) : Call(1, net, x)
    \/ Step(1)
    \/ Return(1)
    \/ ApplySoftmax(1)
    \/ ApplyArgmax(1)
    \/ \E y \in Labels : TargetTransform(y)

Spec == Init /\ [][Next]_vars

\* A worker pool: MaxCalls evaluations of the same model, interleaved
\* module by module.
PoolInputs ==
    {Image(<<1, SmallRows, SmallCols>>, pat) : pat \in {"ramp", "checker"}}
    \cup {Image(<<1, SmallRows, SmallCols + 1>>, "ramp")}

NextPool ==
    \E c \in Workers :
        \/ \E x \in PoolInputs : Call(c, "small", x)
        \/ Step(c)
        \/ Return(c)

SpecPool == Init /\ [][NextPool]_vars

\* ----------------------------------------------------------------- claims
Started(c) == calls[c].stage # "idle"
Finished(c) == calls[c].stage \in {"returned", "prob", "pred"}
InputOf(c) == calls[c].xs[1]
IsImageBatch(t, rows, cols) ==
    Len(t.shape) = 3 /\ t.shape[1] >= 1 /\ t.shape[2] = rows /\ t.shape[3] = cols

\* C1: the model, called on an input of shape (B, 28, 28) with B >= 1, raises
\* no shape error at any module and returns an output of shape (B, 10).
C1_ForwardShape ==
    \A c \in Workers :
        (Started(c) /\ calls[c].net = "model"
                    /\ IsImageBatch(InputOf(c), ImgRows, ImgCols))
        => /\ calls[c].stage # "raised"
           /\ calls[c].stage = "forward" /\ calls[c].pc <= Len(Modules("model"))
                => ModuleForward(Modules("model")[calls[c].pc], params["model"],
                                 calls[c].xs[Len(calls[c].xs)]).ok
           /\ Finished(c) => calls[c].out.shape = <<InputOf(c).shape[1], NumClasses>>

C1_Witness ==
    \E c \in Workers :
        /\ calls[c].net = "model" /\ calls[c].stage = "returned"
        /\ InputOf(c).shape = <<MaxBatch, ImgRows, ImgCols>>
        /\ calls[c].out.shape = <<MaxBatch, NumClasses>>

\* C2: an evaluation applies the modules of its pipeline once each, in list
\* order, each to the output of the one before it, and returns the output of
\* the last.
C2_InOrder ==
    \A c \in Workers :
        Started(c) =>
        LET call == calls[c]
            ms == Modules(call.net)
        IN /\ Len(call.xs) = Len(call.applied) + 1
           /\ call.pc = Len(call.applied) + 1
           /\ \A k \in 1..Len(call.applied) :
                /\ call.applied[k] = k
                /\ ModuleForward(ms[k], params[call.net], call.xs[k]) = Ok(call.xs[k + 1])
           /\ Finished(c) => /\ Len(call.applied) = Len(ms)
                             /\ call.out = call.xs[Len(ms) + 1]

C2_Witness ==
    \E c \in Workers :
        /\ calls[c].net = "small" /\ calls[c].stage = "returned"
        /\ calls[c].applied = <<1, 2, 3, 4, 5, 6>>
        /\ calls[c].out.stored
        /\ \E i \in 1..Len(calls[c].out.data) : calls[c].out.data[i] > One \div 16

\* The evaluation of worker c is about to hand a Linear module an input whose
\* trailing dimension is not the module's in_features.
Mismatch(c) ==
    LET call == calls[c]
        ms == Modules(call.net)
        x == call.xs[Len(call.xs)]
    IN /\ call.stage = "forward" /\ call.pc <= Len(ms)
       /\ ms[call.pc].kind = "Linear"
       /\ x.shape[Len(x.shape)] # ms[call.pc].in_features

\* What a raised evaluation holds, and how far a mismatched input gets in the
\* model.
C3_RaisedState ==
    \A c \in Workers :
        LET call == calls[c]
        IN /\ call.stage = "raised"
              => /\ call.out = NoTensor /\ call.pred_prob = NoTensor
                 /\ call.y_pred = NoTensor
                 /\ call.applied = [k \in 1..(call.pc - 1) |-> k]
                 /\ call.pc <= Len(Modules(call.net))
           /\ (Started(c) /\ call.net = "model" /\ Len(InputOf(c).shape) >= 2
                 /\ Prod(Tail(InputOf(c).shape)) # ImgRows * ImgCols)
              => /\ ~Finished(c)
                 /\ call.pc <= 2
                 /\ call.pc = 2 => Mismatch(c) \/ call.stage = "raised"

\* C3: a Linear module that receives an input whose trailing dimension is not
\* its in_features raises at once; the evaluation then stays as it was left:
\* no later module is applied, nothing is returned, nothing is retried.  For
\* the model: an input whose flattened per-sample length is not 784 ends
\* raised at the first Linear.
C3_ShapeMismatch ==
    /\ [](C3_RaisedState)
    /\ [][\A c \in Workers :
            /\ (Mismatch(c) /\ calls'[c] # calls[c])
                  => calls'[c] = [calls[c] EXCEPT !.stage = "raised"]
            /\ calls[c].stage = "raised" => calls'[c] = calls[c]]_vars

C3_Witness ==
    \E c \in Workers :
        /\ calls[c].net = "model" /\ calls[c].stage = "raised"
        /\ InputOf(c).shape = <<MaxBatch, ImgRows, ImgCols - 1>>
        /\ calls[c].pc = 2

\* C4: Flatten turns a batch of shape (B, H, W) -- for the notebook's images,
\* (B, 28, 28) -- into shape (B, H*W), and the entry (b, W*r + c) of the output
\* is the entry (b, r, c) of the input.
C4_Flatten ==
    \A c \in Workers :
        (Started(c) /\ Len(calls[c].applied) >= 1 /\ Len(InputOf(c).shape) = 3)
        => LET in == InputOf(c)
               out == calls[c].xs[2]
               B == in.shape[1]
               H == in.shape[2]
               W == in.shape[3]
           IN /\ out.shape = <<B, H * W>>
              /\ Len(out.data) = B * H * W
              /\ \A b \in 0..(B - 1) : \A r \in 0..(H - 1) : \A cc \in 0..(W - 1) :
                    At(out, <<b, W * r + cc>>) = At(in, <<b, r, cc>>)

C4_Witness ==
    \E c \in Workers :
        /\ calls[c].applied = <<1>>
        /\ InputOf(c).shape = <<MaxBatch, ImgRows, ImgCols>>
        /\ calls[c].xs[2].shape = <<MaxBatch, ImgRows * ImgCols>>
        /\ At(calls[c].xs[2], <<1, ImgCols * 3 + 5>>) = At(InputOf(c), <<1, 3, 5>>)
        /\ At(InputOf(c), <<1, 3, 5>>) # At(InputOf(c), <<1, 5, 3>>)

\* Every evaluation ends as the pipeline run alone on its input ends.
C5_Isolated ==
    \A c \in Workers :
        LET call == calls[c]
            alone == SequentialForward(Modules(call.net), params[call.net], InputOf(c))
        IN /\ Finished(c) => alone.ok /\ call.out = alone.val
           /\ call.stage = "raised" => ~alone.ok

\* C5: in every interleaving of the pool's evaluations, the parameters are
\* never written, a step of one evaluation changes no other evaluation, and an
\* evaluation ends as it ends when run alone on the same input: it returns the
\* pipeline's output, or raises where the pipeline raises.
C5_SharedParameters ==
    /\ [](C5_Isolated)
    /\ [][/\ params' = params
          /\ \A c, d \in Workers :
                (calls'[c] # calls[c] /\ d # c) => calls'[d] = calls[d]]_vars

C5_Witness ==
    \E c, d \in Workers :
        /\ c # d
        /\ calls[c].stage = "returned" /\ calls[d].stage = "forward"
        /\ calls[d].pc >= 3
        /\ InputOf(c) # InputOf(d)
        /\ calls[c].out.data # <<>>

\* C6, as stated: the index of the largest probability (y_pred) is the index of
\* the largest logit.
C6_ArgmaxPreserved ==
    \A c \in Workers :
        (calls[c].stage = "pred" /\ calls[c].out.stored)
        => calls[c].y_pred = Argmax(calls[c].out)

\* C6, amended: no probability exceeds the probability at the index of the
\* largest logit, and y_pred is that index whenever a single index holds the
\* largest probability.
C6_MaxLogitHasMaxProb ==
    \A c \in Workers :
        (calls[c].stage = "pred" /\ calls[c].out.stored)
        => \A b \in 1..calls[c].out.shape[1] :
              LET logits == Row(calls[c].out, b - 1)
                  probs == Row(calls[c].pred_prob, b - 1)
                  top == CHOOSE i \in 1..Len(logits) :
                            /\ \A j \in 1..Len(logits) : logits[j] <= logits[i]
                            /\ \A j \in 1..(i - 1) : logits[j] < logits[i]
              IN /\ \A j \in 1..Len(probs) : probs[j] <= probs[top]
                 /\ Cardinality({j \in 1..Len(probs) : probs[j] = probs[top]}) = 1
                       => calls[c].y_pred.data[b] = top - 1

C6_Witness ==
    \E c \in Workers :
        /\ calls[c].stage = "pred" /\ calls[c].out.stored
        /\ LET probs == Row(calls[c].pred_prob, 0)
               y == calls[c].y_pred.data[1]
           IN /\ y > 0
              /\ \A j \in 1..Len(probs) : j # y + 1 => probs[j] < probs[y + 1]

\* 1e-5 as a stored value.
Tolerance == One \div 100000

\* C7: every entry of the softmax output is non-negative and the entries of
\* each sample sum to 1 within 1e-5; the output has the shape of the logits.
C7_SoftmaxSum ==
    \A c \in Workers :
        (calls[c].stage \in {"prob", "pred"} /\ calls[c].out.stored)
        => /\ calls[c].pred_prob.shape = calls[c].out.shape
           /\ \A b \in 1..calls[c].out.shape[1] :
                LET probs == Row(calls[c].pred_prob, b - 1)
                IN /\ Len(probs) = NumClasses
                   /\ \A j \in 1..Len(probs) : probs[j] >= 0
                   /\ SumSeq(probs) - One <= Tolerance
                   /\ One - SumSeq(probs) <= Tolerance

C7_Witness ==
    \E c \in Workers :
        /\ calls[c].stage = "prob" /\ calls[c].out.stored
        /\ calls[c].out.shape[1] = MaxBatch
        /\ LET probs == Row(calls[c].pred_prob, MaxBatch - 1)
           IN /\ SumSeq(probs) # One
              /\ \E i, j \in 1..Len(probs) : 8 * probs[i] < 7 * probs[j]

\* C8: for every split point k of a pipeline and every input, running the
\* first k modules and then the rest on their output gives what the whole
\* pipeline gives in one pass; so does applying the modules one by one.
C8_Split ==
    \A c \in Workers :
        Started(c) =>
        LET call == calls[c]
            ms == Modules(call.net)
            ps == params[call.net]
            full == SequentialForward(ms, ps, InputOf(c))
        IN /\ \A k \in 0..Len(ms) :
                LET first == SequentialForward(SubSeq(ms, 1, k), ps, InputOf(c))
                IN full = IF first.ok
                          THEN SequentialForward(SubSeq(ms, k + 1, Len(ms)), ps, first.val)
                          ELSE Raise
           /\ call.stage = "forward"
                => full = SequentialForward(SubSeq(ms, call.pc, Len(ms)), ps,
                                            call.xs[Len(call.xs)])
           /\ Finished(c) => full = Ok(call.out)

C8_Witness ==
    \E c \in Workers :
        /\ calls[c].net = "seq_modules" /\ calls[c].stage = "forward"
        /\ calls[c].pc = 3
        /\ InputOf(c).shape = <<MaxBatch, ImgRows, ImgCols>>
        /\ SequentialForward(SubSeq(SeqModules, 3, 4), params["seq_modules"],
                             calls[c].xs[3]).val.shape = <<MaxBatch, NumClasses>>

\* C9: for a label y in 0..9 the transform gives a vector of length 10, the
\* output size of the model, that is 1 at index y and 0 elsewhere, and the
\* positional and the keyword spelling give the same vector.
C9_OneHot ==
    (target # NoTarget /\ target.y \in 0..(NumClasses - 1))
    => /\ ~target.raised
       /\ Len(target.positional) = Modules("model")[Len(Modules("model"))].out_features
       /\ \A i \in 0..(NumClasses - 1) :
             target.positional[i + 1] = IF i = target.y THEN One ELSE 0
       /\ target.keyword = target.positional

C9_Witness ==
    /\ target.y = 3
    /\ target.positional[4] = One /\ target.positional[3] = 0
    /\ target.keyword = target.positional

\* C10: ReLU keeps the shape, gives no negative entry, keeps every
\* non-negative entry and replaces every negative one by 0; it never raises.
C10_ReLU ==
    \A c \in Workers :
        Started(c) =>
        LET call == calls[c]
            ms == Modules(call.net)
        IN /\ \A k \in 1..Len(call.applied) :
                ms[call.applied[k]].kind = "ReLU"
                => LET in == call.xs[k]
                       out == call.xs[k + 1]
                   IN /\ out.shape = in.shape
                      /\ Len(out.data) = Len(in.data)
                      /\ \A i \in 1..Len(in.data) :
                            /\ out.data[i] >= 0
                            /\ in.data[i] >= 0 => out.data[i] = in.data[i]
                            /\ in.data[i] < 0 => out.data[i] = 0
           /\ (call.stage = "raised" /\ call.pc <= Len(ms))
                => ms[call.pc].kind # "ReLU"

C10_Witness ==
    \E c \in Workers :
        /\ calls[c].net = "small" /\ calls[c].applied = <<1, 2, 3>>
        /\ \E i, j \in 1..Len(calls[c].xs[3].data) :
              /\ calls[c].xs[3].data[i] < 0 /\ calls[c].xs[4].data[i] = 0
              /\ calls[c].xs[3].data[j] > 0
              /\ calls[c].xs[4].data[j] = calls[c].xs[3].data[j]

====
